---- MODULE Spec2Model ----
(***************************************************************************)
(* A model of the idea-generation agent (src/agent.py): the ledger kept in *)
(* memory (self.history), the ledger file on storage (IDEAS_HISTORY_FILE), *)
(* load_history / save_history, compress_learnings and the driving loop.   *)
(*                                                                         *)
(* Representation.                                                         *)
(*   - A Python str is a sequence of symbols (TLA+ strings); "" is <<>>.   *)
(*   - A Python list is a sequence; a Python dict is a function whose      *)
(*     DOMAIN is its set of keys (so a missing key is really missing).     *)
(*   - A file's content is a sequence of JSON tokens (insignificant        *)
(*     whitespace, and so indent=2, is not represented).  A file written   *)
(*     by save_history is kept as the dict that was dumped and the part of *)
(*     the dump that reached storage; Content gives its tokens.  A         *)
(*     partially written file is a proper prefix of the dump.              *)
(*   - datetime.now() is the variable clock read through isoformat; the    *)
(*     clock advances by one tick at every decision (a rejection or an     *)
(*     approval), so that rejected records are told apart by their         *)
(*     timestamps.                                                         *)
(*                                                                         *)
(* Specifications.                                                         *)
(*   - Spec: the loop on a short ledger, with every answer of the          *)
(*     generation oracle, every outcome of a save, interrupts and          *)
(*     restarts.                                                           *)
(*   - LongRun: the loop from a ledger of COMPRESSION_THRESHOLD - 1        *)
(*     records through two compressions, with failing saves and a failing  *)
(*     summarization oracle at the threshold, and with an approval and     *)
(*     iterations without decision at the threshold.                       *)
(*   - Startup: the start of the process from every kind of ledger file.   *)
(*   - Analysis: main of src/ideas/analyze_ideas.py, batch by batch.       *)
(*   - TwoAgents: two processes of agent.py on one ledger file.            *)
(***************************************************************************)
EXTENDS Integers, Sequences, FiniteSets, TLC

\* ------------------------------------------------------------------------
\* Program constants
\* ------------------------------------------------------------------------

\* agent.py:29  COMPRESSION_THRESHOLD = 100
COMPRESSION_THRESHOLD == 100

\* agent.py:203  self.history['rejected_ideas'][-50:]
RETAINED_REJECTED == 50

\* ------------------------------------------------------------------------
\* JSON text: tokens, json.dump, json.load
\* ------------------------------------------------------------------------

\* A token: a string literal (q = TRUE, s its characters) or a punctuation
\* mark / bare word (q = FALSE, s = <<the mark>>).
Tok(q, s) == [q |-> q, s |-> s]

Lit(s) == Tok(TRUE, s)

Mark(c) == Tok(FALSE, <<c>>)

LBRACE == Mark("{")

RBRACE == Mark("}")

LBRACK == Mark("[")

RBRACK == Mark("]")

COMMA == Mark(",")

COLON == Mark(":")

\* The bare words of JSON that json.loads accepts as values.
IsAtom(t) == (~t.q) /\ t.s[1] \in {"true", "false", "null"}

\* dict helpers: d.get(k, default), d[k] = v
Get(d, k, default) == IF k \in DOMAIN d THEN d[k] ELSE default

SetKey(d, k, v) == [x \in (DOMAIN d) \cup {k} |-> IF x = k THEN v ELSE d[x]]

EmptyDict == [x \in {} |-> <<>>]

\* What a failed parse returns (json.JSONDecodeError).
ParseFail == [ok |-> FALSE, t |-> "none", v |-> <<>>, ty |-> EmptyDict]

ParseOk(t, v, ty) == [ok |-> TRUE, t |-> t, v |-> v, ty |-> ty]

\* The nesting depth in front of every token of toks[lo..hi], when the depth
\* in front of toks[lo] is base (computed by halving, to keep the recursion
\* shallow on a long file).
Delta(t) ==
    IF t \in {LBRACE, LBRACK} THEN 1 ELSE IF t \in {RBRACE, RBRACK} THEN -1 ELSE 0

RECURSIVE Depths(_, _, _, _)
Depths(toks, lo, hi, base) ==
    IF lo > hi THEN <<>>
    ELSE IF lo = hi THEN <<base>>
    ELSE LET mid == (lo + hi) \div 2
             left == Depths(toks, lo, mid, base)
         IN  left \o Depths(toks, mid + 1, hi, left[Len(left)] + Delta(toks[mid]))

\* The positions strictly inside the bracket pair (lo, hi) that hold a comma
\* of that pair itself, in increasing order.
Commas(toks, D, lo, hi) ==
    SelectSeq([i \in 1..(hi - lo - 1) |-> lo + i],
              LAMBDA p : toks[p] = COMMA /\ D[p] = D[lo] + 1)

\* The k-th of the segments the commas cs cut the inside of (lo, hi) into.
SegLo(cs, lo, k) == IF k = 1 THEN lo + 1 ELSE cs[k - 1] + 1

SegHi(cs, hi, k) == IF k = Len(cs) + 1 THEN hi - 1 ELSE cs[k] - 1

\* json.loads: parse_value reads toks[lo..hi] as exactly one JSON value and
\* returns it with its type t ("str", "list", "dict", "atom") and, for a
\* dict, the types ty of its members.  A key given twice keeps its last
\* value.  D is the nesting depth in front of every token.
RECURSIVE parse_value(_, _, _, _)
parse_value(toks, D, lo, hi) ==
    IF lo > hi THEN ParseFail
    ELSE IF lo = hi THEN
        IF toks[lo].q THEN ParseOk("str", toks[lo].s, EmptyDict)
        ELSE IF IsAtom(toks[lo]) THEN ParseOk("atom", toks[lo].s, EmptyDict)
        ELSE ParseFail
    ELSE IF \E p \in (lo + 1)..hi : D[p] < D[lo] + 1 THEN ParseFail
    ELSE IF toks[lo] = LBRACK /\ toks[hi] = RBRACK THEN
        IF hi = lo + 1 THEN ParseOk("list", <<>>, EmptyDict)
        ELSE LET cs == Commas(toks, D, lo, hi)
                 rs == [k \in 1..(Len(cs) + 1) |->
                            parse_value(toks, D, SegLo(cs, lo, k), SegHi(cs, hi, k))]
             IN  IF \A k \in DOMAIN rs : rs[k].ok
                 THEN ParseOk("list", [k \in DOMAIN rs |-> rs[k].v], EmptyDict)
                 ELSE ParseFail
    ELSE IF toks[lo] = LBRACE /\ toks[hi] = RBRACE THEN
        IF hi = lo + 1 THEN ParseOk("dict", EmptyDict, EmptyDict)
        ELSE LET cs == Commas(toks, D, lo, hi)
                 n  == Len(cs) + 1
                 wf(k) == LET a == SegLo(cs, lo, k)
                              b == SegHi(cs, hi, k)
                          IN  b >= a + 2 /\ toks[a].q /\ Len(toks[a].s) = 1
                              /\ toks[a + 1] = COLON
                 key(k) == toks[SegLo(cs, lo, k)].s[1]
                 rs == [k \in 1..n |->
                            parse_value(toks, D, SegLo(cs, lo, k) + 2, SegHi(cs, hi, k))]
                 last(x) == CHOOSE k \in 1..n :
                                key(k) = x /\ \A j \in (k + 1)..n : key(j) # x
             IN  IF \A k \in 1..n : wf(k) /\ rs[k].ok
                 THEN ParseOk("dict",
                              [x \in {key(k) : k \in 1..n} |-> rs[last(x)].v],
                              [x \in {key(k) : k \in 1..n} |-> rs[last(x)].t])
                 ELSE ParseFail
    ELSE ParseFail

\* json.load(f): the whole content must be exactly one value.
json_load(content) ==
    parse_value(content, Depths(content, 1, Len(content), 0), 1, Len(content))

\* json.dump of a list of str.
dump_str_list(l) ==
    <<LBRACK>>
    \o [i \in 1..(IF Len(l) = 0 THEN 0 ELSE 2 * Len(l) - 1) |->
            IF i % 2 = 1 THEN Lit(l[(i + 1) \div 2]) ELSE COMMA]
    \o <<RBRACK>>

\* Variant: title and reason are written under each other's key.
record_token_swapped(r, j) ==
    CASE j = 1 -> LBRACE
      [] j = 2 -> Lit(<<"title">>)
      [] j = 4 -> Lit(r.reason)
      [] j = 6 -> Lit(<<"reason">>)
      [] j = 8 -> Lit(r.title)
      [] j = 10 -> Lit(<<"timestamp">>)
      [] j = 12 -> Lit(r.timestamp)
      [] j = 13 -> RBRACE
      [] j \in {3, 7, 11} -> COLON
      [] OTHER -> COMMA

\* json.dump of one rejected record {title, reason, timestamp}: its j-th
\* token, of 13.
record_token(r, j) ==
    CASE j = 1 -> LBRACE
      [] j = 2 -> Lit(<<"title">>)
      [] j = 4 -> Lit(r.title)
      [] j = 6 -> Lit(<<"reason">>)
      [] j = 8 -> Lit(r.reason)
      [] j = 10 -> Lit(<<"timestamp">>)
      [] j = 12 -> Lit(r.timestamp)
      [] j = 13 -> RBRACE
      [] j \in {3, 7, 11} -> COLON
      [] OTHER -> COMMA

\* json.dump of the list of rejected records: 13 tokens a record, and a
\* comma between two records.
dump_record_list(l) ==
    <<LBRACK>>
    \o [i \in 1..(IF Len(l) = 0 THEN 0 ELSE 14 * Len(l) - 1) |->
            IF i % 14 = 0 THEN COMMA
            ELSE record_token(l[((i - 1) \div 14) + 1], i % 14)]
    \o <<RBRACK>>

\* The order json.dump writes the ledger's keys in (dict insertion order
\* of a ledger built by load_history).
KeyOrder ==
    << "explored_ideas", "approved_ideas", "rejected_ideas",
       "compressed_learnings", "last_updated" >>

dump_member(h, k) ==
    <<Lit(<<k>>), COLON>>
    \o (IF k = "approved_ideas" THEN dump_str_list(h[k])
        ELSE IF k = "rejected_ideas" THEN dump_record_list(h[k])
        ELSE <<Lit(h[k])>>)

RECURSIVE dump_members(_, _)
dump_members(h, ks) ==
    IF ks = <<>> THEN <<>>
    ELSE dump_member(h, Head(ks))
         \o (IF Tail(ks) = <<>> THEN <<>> ELSE <<COMMA>>)
         \o dump_members(h, Tail(ks))

\* json.dump(self.history, f, indent=2): the tokens of the whole file.
json_dump(h) ==
    <<LBRACE>>
    \o dump_members(h, SelectSeq(KeyOrder, LAMBDA k : k \in DOMAIN h))
    \o <<RBRACE>>

\* ------------------------------------------------------------------------
\* Bounds of the model
\* ------------------------------------------------------------------------

\* The clock ticks at each decision (a rejection or an approval); no decision
\* is recorded at or after this tick.
MaxClock == 2

\* The same for the long run (specification LongRun), which goes from one
\* compression to the next.
MaxLongClock == 53

\* How far over the threshold the list can get through failures of the
\* summarization oracle (specification LongRun).
MaxBacklog == 1

\* The approved entries a ledger of the long run holds when an approval is
\* still followed.
MaxLongApproved == 1

\* Clock ticks that share one calendar date (strftime('%Y-%m-%d')).
TicksPerDay == 32

\* ------------------------------------------------------------------------
\* Time, strings, slices
\* ------------------------------------------------------------------------

\* datetime.now().isoformat() at tick c
isoformat(c) == <<ToString(c)>>

\* datetime.now().strftime('%Y-%m-%d') at tick c
strftime_date(c) == <<"day", ToString(c \div TicksPerDay)>>

Whitespace == {" ", "\n", "\t"}

\* str.strip()
strip(s) ==
    LET ns == {i \in DOMAIN s : s[i] \notin Whitespace} IN
    IF ns = {} THEN <<>>
    ELSE SubSeq(s, CHOOSE i \in ns : \A j \in ns : i <= j,
                   CHOOSE i \in ns : \A j \in ns : j <= i)

\* l[-n:]
LastN(l, n) == IF Len(l) <= n THEN l ELSE SubSeq(l, Len(l) - n + 1, Len(l))

\* ------------------------------------------------------------------------
\* The ledger: load_history, save_history
\* ------------------------------------------------------------------------

\* The ledger file: whether it exists, whether the process may open it, and
\* what it holds: either the tokens raw, or (dumped) the part `part` of the
\* tokens of json.dump(value).
RawFile(tokens) ==
    [ exists |-> TRUE, readable |-> TRUE, dumped |-> FALSE, raw |-> tokens,
      value |-> EmptyDict, part |-> "all" ]

DumpFile(value, part) ==
    [ exists |-> TRUE, readable |-> TRUE, dumped |-> TRUE, raw |-> <<>>,
      value |-> value, part |-> part ]

NoFile == [RawFile(<<>>) EXCEPT !.exists = FALSE]

\* How many tokens of a file of n tokens reach storage when a write stops:
\* none (the file was only truncated), or all but the last.
CutAt(n, part) ==
    IF part = "all" THEN n
    ELSE IF part = "nothing" THEN 0
    ELSE n - 1

\* The tokens a file holds.
Content(f) ==
    IF f.dumped
    THEN LET text == json_dump(f.value) IN SubSeq(text, 1, CutAt(Len(text), f.part))
    ELSE f.raw

\* self.history: a dict d when isdict; load_history can also return a JSON
\* list as it is (isdict = FALSE, d = EmptyDict).
Dict(d) == [isdict |-> TRUE, d |-> d]

NotADict == [isdict |-> FALSE, d |-> EmptyDict]

\* Variant: the fresh ledger lacks its lists.
FreshLedger_bare(now) == [x \in {"last_updated"} |-> now]

\* agent.py:81-82  the fresh ledger
FreshLedger(now) ==
    [ approved_ideas |-> <<>>, rejected_ideas |-> <<>>,
      compressed_learnings |-> <<>>, last_updated |-> now ]

\* Variant: the legacy list is dropped.
upcast_dropped(data, now) ==
    [ approved_ideas |-> <<>>,
      rejected_ideas |-> <<>>,
      compressed_learnings |-> <<>>,
      last_updated |-> Get(data, "last_updated", now) ]

\* agent.py:71-77  the legacy file's list becomes approved_ideas
upcast(data, now) ==
    [ approved_ideas |-> data["explored_ideas"],
      rejected_ideas |-> <<>>,
      compressed_learnings |-> <<>>,
      last_updated |-> Get(data, "last_updated", now) ]

\* load_history (agent.py:61-82).  Every exception raised inside the try
\* block (open, json.load, the 'in' test, data.get) is caught at line 79.
load_history(f, now) ==
    IF ~f.exists THEN Dict(FreshLedger(now))                       \* line 82
    ELSE IF ~f.readable THEN Dict(FreshLedger(now))                \* open raises
    ELSE LET data == json_load(Content(f)) IN
        IF ~data.ok THEN Dict(FreshLedger(now))                    \* JSONDecodeError
        ELSE IF data.t = "atom" THEN Dict(FreshLedger(now))        \* TypeError: 'in'
        ELSE IF data.t = "str" THEN
            \* 'explored_ideas' in data is a substring test; when it holds,
            \* data.get raises AttributeError.  A str is returned as it is.
            IF \E i \in DOMAIN data.v : data.v[i] = "explored_ideas"
            THEN Dict(FreshLedger(now)) ELSE NotADict
        ELSE IF data.t = "list" THEN
            IF \E i \in DOMAIN data.v : data.v[i] = <<"explored_ideas">>
            THEN Dict(FreshLedger(now)) ELSE NotADict
        ELSE IF "explored_ideas" \in DOMAIN data.v /\ data.ty["explored_ideas"] # "list"
            THEN Dict(data.v)                                      \* line 69
        ELSE IF "explored_ideas" \in DOMAIN data.v
            THEN Dict(upcast(data.v, now))
        ELSE Dict(data.v)                                          \* line 78

\* What a save can meet: it succeeds; open() raises and the file is left as
\* it was; the write raises after open(.., 'w') has truncated the file and
\* nothing reached it; or KeyboardInterrupt arrives while json.dump is
\* writing, when all but the end of the text has reached the file.
SaveOk == [kind |-> "ok", cut |-> "all"]

SaveOutcomes ==
    { SaveOk,
      [kind |-> "open_fails", cut |-> "all"],
      [kind |-> "write_fails", cut |-> "nothing"],
      [kind |-> "interrupted", cut |-> "most"] }

\* Variant: the save keeps the rejected records the file holds and the
\* ledger in memory has not.
save_history_merging(h, f, now, out) ==
    LET h1 == SetKey(h, "last_updated", now)
        o  == IF f.exists /\ ~f.readable THEN "open_fails" ELSE out.kind
        kept == IF f.exists /\ f.dumped /\ f.part = "all"
                THEN SelectSeq(Get(f.value, "rejected_ideas", <<>>),
                               LAMBDA x : \A i \in DOMAIN Get(h, "rejected_ideas", <<>>) :
                                             h["rejected_ideas"][i] # x)
                ELSE <<>>
        h2 == SetKey(h1, "rejected_ideas", kept \o Get(h, "rejected_ideas", <<>>))
    IN  [ h      |-> h1,
          file   |-> IF o = "ok" THEN DumpFile(h2, "all")
                     ELSE IF o = "open_fails" THEN f
                     ELSE DumpFile(h2, out.cut),
          raised |-> IF o = "interrupted" THEN "KeyboardInterrupt" ELSE "none",
          saved  |-> o = "ok" ]

\* Variant: the exception of a failed save leaves the method.
save_history_raises(h, f, now, out) ==
    LET h1 == SetKey(h, "last_updated", now)
        o  == IF f.exists /\ ~f.readable THEN "open_fails" ELSE out.kind
    IN  [ h      |-> h1,
          file   |-> IF o = "ok" THEN DumpFile(h1, "all")
                     ELSE IF o = "open_fails" THEN f
                     ELSE DumpFile(h1, out.cut),
          raised |-> IF o = "interrupted" THEN "KeyboardInterrupt"
                     ELSE IF o = "ok" THEN "none" ELSE "Exception",
          saved  |-> o = "ok" ]

\* save_history (agent.py:84-91) with outcome out.  Returns the ledger, the file, and the
\* exception that leaves the method: only KeyboardInterrupt, which is no
\* Exception, passes line 90.  A file the process may not open stays as it is.
save_history(h, f, now, out) ==
    LET h1 == SetKey(h, "last_updated", now)
        o  == IF f.exists /\ ~f.readable THEN "open_fails" ELSE out.kind
    IN  [ h      |-> h1,
          file   |-> IF o = "ok" THEN DumpFile(h1, "all")
                     ELSE IF o = "open_fails" THEN f
                     ELSE DumpFile(h1, out.cut),
          raised |-> IF o = "interrupted" THEN "KeyboardInterrupt" ELSE "none",
          saved  |-> o = "ok" ]

\* ------------------------------------------------------------------------
\* compress_learnings
\* ------------------------------------------------------------------------

\* An answer of an oracle call: the call raised, or it returned text.
OracleError == [ok |-> FALSE, text |-> <<>>]

OracleText(t) == [ok |-> TRUE, text |-> t]

\* Variant: the lines of the window as it was before the newest record.
summary_lines_before_append(window) ==
    [i \in 1..(Len(window) - 1) |->
        <<"- ">> \o window[i].title \o <<": ">> \o window[i].reason]

\* agent.py:166-169  one line "- <title>: <reason>" per record of the window;
\* rejected_summary is these lines joined by "\n".
summary_lines(window) ==
    [i \in DOMAIN window |-> <<"- ">> \o window[i].title \o <<": ">> \o window[i].reason]

\* agent.py:198  the dated separator put in front of an appended compression
separator(c) ==
    <<"\n", "\n", "--- Compression from ">> \o strftime_date(c) \o <<" ---", "\n">>

\* What one call of compress_learnings did, for the observer: whether it
\* was called, how many calls of the oracle it made and with which lines,
\* whether the compression was carried out, and the text it stored.
NoCompression ==
    [invoked |-> FALSE, calls |-> 0, prompt |-> <<>>, done |-> FALSE, output |-> <<>>]

\* Variant: <= for <.
below_threshold_inclusive(rejected_count) == rejected_count <= COMPRESSION_THRESHOLD

\* agent.py:159-160  rejected_count < COMPRESSION_THRESHOLD: nothing to do
below_threshold(rejected_count) == rejected_count < COMPRESSION_THRESHOLD

\* Variant: [:COMPRESSION_THRESHOLD], the oldest records.
recent_rejected_oldest(l) ==
    IF Len(l) <= COMPRESSION_THRESHOLD THEN l ELSE SubSeq(l, 1, COMPRESSION_THRESHOLD)

\* agent.py:168  self.history['rejected_ideas'][-COMPRESSION_THRESHOLD:]
recent_rejected(l) == LastN(l, COMPRESSION_THRESHOLD)

\* Variant: the new text replaces the old.
new_learnings_overwrite(old, c, compressed) == compressed

\* Variant: the new text is appended without the separator.
new_learnings_undated(old, c, compressed) == old \o compressed

\* agent.py:197-200  the learnings after a compression at tick c
new_learnings(old, c, compressed) ==
    IF old # <<>> THEN old \o separator(c) \o compressed ELSE compressed

\* Variant: the truncation is left out.
kept_rejected_all(l) == l

\* agent.py:203  self.history['rejected_ideas'][-50:]
kept_rejected(l) == LastN(l, RETAINED_REJECTED)

\* Variant: the error is not caught.
compress_except_reraise(h, f, prompt) ==
    [ h |-> h, file |-> f, raised |-> "Exception", saved |-> FALSE,
      obs |-> [invoked |-> TRUE, calls |-> 1, prompt |-> prompt, done |-> FALSE,
               output |-> <<>>] ]

\* agent.py:208-209  except Exception: the error is printed, the method returns
compress_except(h, f, prompt) ==
    [ h |-> h, file |-> f, raised |-> "none", saved |-> FALSE,
      obs |-> [invoked |-> TRUE, calls |-> 1, prompt |-> prompt, done |-> FALSE,
               output |-> <<>>] ]

\* compress_learnings (agent.py:155-209) on ledger h and file f at tick c,
\* with the oracle's answer ans and the save's outcome so.
compress_learnings(h, f, c, ans, so) ==
    IF below_threshold(Len(Get(h, "rejected_ideas", <<>>)))
    THEN [ h |-> h, file |-> f, raised |-> "none", saved |-> FALSE,
           obs |-> [NoCompression EXCEPT !.invoked = TRUE] ]
    ELSE LET prompt == summary_lines(recent_rejected(h["rejected_ideas"])) IN
        IF ~ans.ok
        THEN compress_except(h, f, prompt)
        ELSE LET compressed == strip(ans.text)
                 h1  == SetKey(h, "compressed_learnings",
                               new_learnings(Get(h, "compressed_learnings", <<>>),
                                             c, compressed))
                 h2  == SetKey(h1, "rejected_ideas", kept_rejected(h1["rejected_ideas"]))
                 sv  == save_history(h2, f, isoformat(c), so)
             IN  [ h |-> sv.h, file |-> sv.file, raised |-> sv.raised, saved |-> sv.saved,
                   obs |-> [invoked |-> TRUE, calls |-> 1, prompt |-> prompt,
                            done |-> TRUE, output |-> compressed] ]

\* ------------------------------------------------------------------------
\* generate_and_evaluate_idea
\* ------------------------------------------------------------------------

\* Python truthiness of a JSON value v of type t
Truthy(v, t) ==
    IF t = "atom" THEN v = <<"true">>
    ELSE IF t = "dict" THEN DOMAIN v # {}
    ELSE v # <<>>

\* response_text.find('{') and response_text.rfind('}'), as 1-based token
\* positions; 0 when there is none (Python's -1).
find_open(text) ==
    IF \E i \in DOMAIN text : text[i] = LBRACE
    THEN CHOOSE i \in DOMAIN text :
            text[i] = LBRACE /\ \A j \in 1..(i - 1) : text[j] # LBRACE
    ELSE 0

rfind_close(text) ==
    IF \E i \in DOMAIN text : text[i] = RBRACE
    THEN CHOOSE i \in DOMAIN text :
            text[i] = RBRACE /\ \A j \in (i + 1)..Len(text) : text[j] # RBRACE
    ELSE 0

\* Variant: the keywords are put before the entries the list holds.
extend_front(l, v, t) == IF t = "str" THEN [i \in DOMAIN v |-> <<v[i]>>] \o l ELSE v \o l

\* list.extend(keywords): a list adds its elements, a str its characters.
extend(l, v, t) == IF t = "str" THEN l \o [i \in DOMAIN v |-> <<v[i]>>] ELSE l \o v

\* What the observer keeps of an approval: result['title'], the value of
\* result.get('keywords', []) and its JSON type.
NoApproval == [title |-> <<>>, keywords |-> <<>>, type |-> "none"]

\* generate_and_evaluate_idea (agent.py:211-408) on ledger hist and file f
\* at tick c.  ans is the generation oracle's answer, so1 the outcome of the
\* save that follows the decision, cans the summarization oracle's answer
\* and so2 the outcome of the save inside compress_learnings.
\* Returns the ledger, the file, the value returned (ret: "None", or "idea"
\* with the dict result), the exception that leaves the method, the tick,
\* and what was observed.
Returned(hist, f, ret, raised, c, kind, saves, cobs, result) ==
    [ hist |-> hist, file |-> f, ret |-> ret, raised |-> raised, clock |-> c,
      kind |-> kind, saves |-> saves, compress |-> cobs,
      result |-> IF ret = "idea" THEN result ELSE EmptyDict,
      approval |-> NoApproval ]

\* Variant: the decode error is raised again.
decode_except_reraise(hist, f, c) ==
    Returned(hist, f, "None", "Exception", c, "bad_json", <<>>, NoCompression, EmptyDict)

\* agent.py:402-405  except json.JSONDecodeError: the error is printed, None
\* is returned
decode_except(hist, f, c) ==
    Returned(hist, f, "None", "none", c, "bad_json", <<>>, NoCompression, EmptyDict)

\* Variant: the title is first read at line 391, after the keywords were
\* added.
title_except_after_extend(hist, f, c, kw, kt) ==
    Returned(Dict(SetKey(hist.d, "approved_ideas",
                         IF kt \in {"list", "str"}
                         THEN extend(Get(hist.d, "approved_ideas", <<>>), kw, kt)
                         ELSE Get(hist.d, "approved_ideas", <<>>))),
             f, "None", "none", c, "no_title", <<>>, NoCompression, EmptyDict)

\* agent.py:385 with 406-408  result['title'] raises KeyError in the print,
\* before the ledger is touched; the error is printed, None is returned
title_except(hist, f, c, kw, kt) ==
    Returned(hist, f, "None", "none", c, "no_title", <<>>, NoCompression, EmptyDict)

generate_and_evaluate_idea(hist, f, c, ans, so1, cans, so2) ==
    IF ~hist.isdict                               \* line 220: AttributeError, outside try
    THEN Returned(hist, f, "None", "Exception", c, "crash", <<>>, NoCompression, EmptyDict)
    ELSE IF ~ans.ok                               \* line 399
    THEN Returned(hist, f, "None", "none", c, "api_error", <<>>, NoCompression, EmptyDict)
    ELSE LET h == hist.d
             json_start == find_open(ans.text)
             json_end == rfind_close(ans.text)
         IN
         IF json_start = 0 \/ json_end = 0        \* line 360
         THEN Returned(hist, f, "None", "none", c, "no_json", <<>>, NoCompression, EmptyDict)
         ELSE LET result == json_load(SubSeq(ans.text, json_start, json_end)) IN
         IF ~result.ok                            \* line 402
         THEN decode_except(hist, f, c)
         ELSE IF ~Truthy(Get(result.v, "venture_backable", <<"false">>),
                         Get(result.ty, "venture_backable", "atom"))
         THEN \* lines 367-383: the rejection
              LET c1 == c + 1
                  rec == [ title |-> Get(result.v, "idea", <<"Unknown idea">>),
                           reason |-> Get(result.v, "reason", <<"No reason provided">>),
                           timestamp |-> isoformat(c1) ]
                  h1 == SetKey(h, "rejected_ideas",
                               Append(Get(h, "rejected_ideas", <<>>), rec))
                  sv == save_history(h1, f, isoformat(c1), so1)
              IN  IF sv.raised # "none"
                  THEN Returned(Dict(sv.h), sv.file, "None", sv.raised, c1, "rejected",
                                <<sv.saved>>, NoCompression, EmptyDict)
                  ELSE LET cp == compress_learnings(sv.h, sv.file, c1, cans, so2) IN
                       Returned(Dict(cp.h), cp.file, "None", cp.raised, c1, "rejected",
                                IF cp.obs.done THEN <<sv.saved, cp.saved>> ELSE <<sv.saved>>,
                                cp.obs, EmptyDict)
         ELSE IF "title" \notin DOMAIN result.v
         THEN title_except(hist, f, c, Get(result.v, "keywords", <<>>),
                           Get(result.ty, "keywords", "list"))
         ELSE \* lines 385-397: the approval
              LET kw == Get(result.v, "keywords", <<>>)
                  kt == Get(result.ty, "keywords", "list")
                  h0 == SetKey(h, "approved_ideas", Get(h, "approved_ideas", <<>>))
              IN  IF kt \notin {"list", "str"}    \* extend raises TypeError, caught at 406
                  THEN Returned(Dict(h0), f, "None", "none", c, "bad_keywords", <<>>,
                                NoCompression, EmptyDict)
                  ELSE LET c1 == c + 1
                           h1 == SetKey(h0, "approved_ideas",
                                        Append(extend(h0["approved_ideas"], kw, kt),
                                               result.v["title"]))
                           sv == save_history(h1, f, isoformat(c1), so1)
                       IN  [ Returned(Dict(sv.h), sv.file,
                                      IF sv.raised = "none" THEN "idea" ELSE "None",
                                      sv.raised, c1, "approved", <<sv.saved>>,
                                      NoCompression, result.v)
                               EXCEPT !.approval = [ title |-> result.v["title"],
                                                     keywords |-> kw, type |-> kt ] ]

\* ------------------------------------------------------------------------
\* save_idea_to_file
\* ------------------------------------------------------------------------

\* The keys save_idea_to_file reads with idea[...] (agent.py:98-127).
SinkFields ==
    {"title", "core_problem", "value_proposition", "market_size", "icp", "justification"}

\* save_idea_to_file (agent.py:93-153): the files of IDEAS_DIR afterwards
\* and whether a path was returned.  A missing key (KeyError) and a failed
\* write (io_ok = FALSE) are both caught at line 151.
save_idea_to_file(idea, dir, io_ok) ==
    IF SinkFields \subseteq DOMAIN idea /\ io_ok
    THEN [dir |-> Append(dir, idea["title"]), path |-> TRUE]
    ELSE [dir |-> dir, path |-> FALSE]

\* ------------------------------------------------------------------------
\* The environment: files found at start, oracle answers
\* ------------------------------------------------------------------------

\* A JSON object with the given members (each the tokens of "key": value).
RECURSIVE JoinMembers(_)
JoinMembers(ms) ==
    IF ms = <<>> THEN <<>>
    ELSE Head(ms) \o (IF Tail(ms) = <<>> THEN <<>> ELSE <<COMMA>>) \o JoinMembers(Tail(ms))

Object(ms) == <<LBRACE>> \o JoinMembers(ms) \o <<RBRACE>>

Member(k, valueTokens) == <<Lit(<<k>>), COLON>> \o valueTokens

\* A rejected record written by an earlier run at tick c (c <= 0).
OldRecord(c) == [title |-> <<"old">>, reason |-> <<"why">>, timestamp |-> isoformat(c)]

\* The ledger an earlier run left: n rejected records, the given learnings.
OldLedger(n, learnings) ==
    [ approved_ideas |-> << <<"seen">> >>,
      rejected_ideas |-> [i \in 1..n |-> OldRecord(i - n)],
      compressed_learnings |-> learnings,
      last_updated |-> isoformat(0) ]

\* The lists of explored ideas of the legacy files.
LegacyLists == { <<>>, << <<"a">>, <<"b">> >> }

\* A file of the legacy format {explored_ideas, last_updated}, with or
\* without its date.
LegacyFile(ideas, dated) ==
    RawFile(Object(<< Member("explored_ideas", dump_str_list(ideas)) >>
                   \o (IF dated THEN << Member("last_updated", <<Lit(<<"long ago">>)>>) >>
                       ELSE <<>>)))

LegacyFiles == {LegacyFile(l, dated) : l \in LegacyLists, dated \in BOOLEAN}

\* A file the process has no access to.
Unreadable == [DumpFile(OldLedger(2, <<>>), "all") EXCEPT !.readable = FALSE]

\* The ledger file the process finds when it is first started.
InitFiles ==
    { NoFile,
      LegacyFile(<< <<"a">>, <<"b">> >>, TRUE),
      RawFile(Object(<<>>)),                                          \* {}
      RawFile(<<LBRACK, RBRACK>>),                                    \* []
      DumpFile(OldLedger(2, <<"L0">>), "all") }

\* Every way a write of the ledger can have stopped: the proper prefixes of
\* the text of a saved ledger.
TruncatedFiles ==
    LET text == json_dump(OldLedger(2, <<"L0">>)) IN
    {RawFile(SubSeq(text, 1, n)) : n \in 0..(Len(text) - 1)}

\* The files of the specification Startup: those above, the truncated ones,
\* and text that is no ledger.
StartupFiles ==
    InitFiles \cup TruncatedFiles \cup LegacyFiles \cup
    { Unreadable,
      RawFile(Object(<< Member("explored_ideas", <<Lit(<<"x">>)>>) >>)),
      RawFile(<<Mark("null")>>),
      RawFile(<<Lit(<<"explored_ideas">>)>>),
      RawFile(<<Mark("garbage")>>),
      DumpFile(OldLedger(2, <<>>), "all") }

\* The ledger file at the start of the long run.
LongRunFile == DumpFile(OldLedger(COMPRESSION_THRESHOLD - 1, <<>>), "all")

True == <<Mark("true")>>

False == <<Mark("false")>>

Str(x) == <<Lit(<<x>>)>>

Narrative ==
    << Member("core_problem", Str("p")), Member("value_proposition", Str("v")),
       Member("market_size", Str("m")), Member("icp", Str("i")),
       Member("justification", Str("j")) >>

\* Texts of the generation oracle that end in a rejection record.
RejectingAnswers ==
    { <<Mark("Verdict")>>
        \o Object(<< Member("venture_backable", False), Member("idea", Str("t")),
                     Member("reason", Str("r")) >>)
        \o <<Mark("Thanks")>>,
      Object(<<>>) }

\* Texts of the generation oracle that end in an approval.
ApprovingAnswers ==
    { <<Mark("Verdict")>>
        \o Object(<< Member("venture_backable", True), Member("title", Str("T")),
                     Member("keywords", dump_str_list(<< <<"k1">>, <<"k2">> >>)) >>
                  \o Narrative)
        \o <<Mark("Thanks")>>,
      Object(<< Member("venture_backable", Str("yes")), Member("title", Str("V")),
                Member("keywords", <<Lit(<<"x", "y">>)>>) >>) }

\* Texts of the generation oracle that yield no decision.
FailingAnswers ==
    { <<Mark("Sorry")>>,                                              \* no brace
      <<RBRACE, Mark("then"), LBRACE>>,                               \* '}' before '{'
      <<LBRACE, Mark("oops"), RBRACE>>,                               \* not JSON
      Object(<< Member("venture_backable", True),                     \* no title
                Member("keywords", dump_str_list(<< <<"k1">> >>)) >>),
      Object(<< Member("venture_backable", True), Member("title", Str("T")),
                Member("keywords", <<Mark("null")>>) >>) }

\* Answers of the summarization oracle: response.content[0].text
SummaryTexts == { <<" ", "A", "\n">>, <<"B">> }

\* ------------------------------------------------------------------------
\* The analysis script (src/ideas/analyze_ideas.py)
\*
\* An archived idea is a record with its title; the title of the i-th file
\* in sorted order is the number i - 1.  A batch result is the dict that
\* json.loads returned: a function from its keys to lists of dicts.  Every
\* entry of an answer carries a field "about" that the program never reads:
\* the ideas the oracle was looking at when it wrote the entry.
\* ------------------------------------------------------------------------

BATCH_SIZE == 20

TOP_N == 20

TOP_PRINTED == 5

\* The largest archive followed.
MaxIdeas == 44

\* load_all_ideas (analyze_ideas.py:55-71): the ideas in file order
Collection(n) == [i \in 1..n |-> [title |-> i - 1]]

\* analyze_ideas.py:219  [ideas[i:i + BATCH_SIZE] for i in range(0, len(ideas), BATCH_SIZE)]
make_batches(all, size) ==
    [ b \in 1..((Len(all) + size - 1) \div size) |->
        SubSeq(all, (b - 1) * size + 1,
               IF b * size < Len(all) THEN b * size ELSE Len(all)) ]

\* analyze_ideas.py:81  enumerate(ideas, 1): the label the prompt gives the
\* idea at position p (0-based) of the batch
shown_label(p) == p + 1

\* Variant: a failed batch returns a dict without the three lists.
EmptyResult_bare == [x \in {} |-> <<>>]

\* analyze_ideas.py:155  what a failed batch returns
EmptyResult == [themes |-> <<>>, duplicates |-> <<>>, scores |-> <<>>]

\* Variant: the 1-based batch number that main counts with.
offset_one_based(batch_num, batch_size) == (batch_num + 1) * batch_size

\* analyze_ideas.py:167  batch_num is the 0-based position in batch_results
offset(batch_num, batch_size) == batch_num * batch_size

\* analyze_ideas.py:171, 176  [idx + offset for idx in ...]
rebase_list(l, off) == [i \in 1..Len(l) |-> l[i] + off]

\* analyze_ideas.py:170-182  the loop body: every theme, duplicate group and
\* score of the result is changed in place
adjust_result(result, off) ==
    [ k \in DOMAIN result |->
        IF k = "themes"
        THEN [i \in 1..Len(result[k]) |->
                [result[k][i] EXCEPT !.idea_indices = rebase_list(@, off)]]
        ELSE IF k = "duplicates"
        THEN [i \in 1..Len(result[k]) |->
                [result[k][i] EXCEPT !.group = rebase_list(@, off)]]
        ELSE IF k = "scores"
        THEN [i \in 1..Len(result[k]) |->
                [result[k][i] EXCEPT !.idea_index = @ + off]]
        ELSE result[k] ]

\* The entries of field k of the first n results, in order (the appends of
\* lines 172, 177, 182).
RECURSIVE appended(_, _, _)
appended(results, k, n) ==
    IF n = 0 THEN <<>>
    ELSE appended(results, k, n - 1) \o Get(results[n], k, <<>>)

\* analyze_ideas.py:158-184  the merged report, and batch_results as the
\* call leaves it: the dicts of the merged lists are the dicts of the
\* argument.
merge_batch_results(batch_results, batch_size) ==
    LET adjusted == [ b \in 1..Len(batch_results) |->
                        adjust_result(batch_results[b], offset(b - 1, batch_size)) ]
    IN  [ merged |-> [ themes |-> appended(adjusted, "themes", Len(adjusted)),
                       duplicates |-> appended(adjusted, "duplicates", Len(adjusted)),
                       scores |-> appended(adjusted, "scores", Len(adjusted)) ],
          batch_results |-> adjusted ]

\* analyze_ideas.py:245  key=lambda x: x.get("total_score", 0)
sort_key(x) == Get(x, "total_score", 0)

\* Two descending runs merged into one; of entries with equal keys those of
\* a come first.
MergeRuns(a, b) ==
    LET pa(i) == i + Cardinality({j \in 1..Len(b) : sort_key(b[j]) > sort_key(a[i])})
        pb(j) == j + Cardinality({i \in 1..Len(a) : sort_key(a[i]) >= sort_key(b[j])})
    IN  [ p \in 1..(Len(a) + Len(b)) |->
            IF \E i \in 1..Len(a) : pa(i) = p
            THEN a[CHOOSE i \in 1..Len(a) : pa(i) = p]
            ELSE b[CHOOSE j \in 1..Len(b) : pb(j) = p] ]

\* The same; of entries with equal keys those of b come first.
MergeRunsTiesReversed(a, b) ==
    LET pa(i) == i + Cardinality({j \in 1..Len(b) : sort_key(b[j]) >= sort_key(a[i])})
        pb(j) == j + Cardinality({i \in 1..Len(a) : sort_key(a[i]) > sort_key(b[j])})
    IN  [ p \in 1..(Len(a) + Len(b)) |->
            IF \E i \in 1..Len(a) : pa(i) = p
            THEN a[CHOOSE i \in 1..Len(a) : pa(i) = p]
            ELSE b[CHOOSE j \in 1..Len(b) : pb(j) = p] ]

\* Variant: sorted ascending, then reversed.
RECURSIVE sorted_by_total_reversed(_)
sorted_by_total_reversed(l) ==
    IF Len(l) <= 1 THEN l
    ELSE MergeRunsTiesReversed(sorted_by_total_reversed(SubSeq(l, 1, Len(l) \div 2)),
                               sorted_by_total_reversed(SubSeq(l, Len(l) \div 2 + 1, Len(l))))

\* analyze_ideas.py:243-247  sorted(scores, key=..., reverse=True): the sort
\* of Python merges sorted runs and is stable, also with reverse=True
RECURSIVE sorted_by_total(_)
sorted_by_total(l) ==
    IF Len(l) <= 1 THEN l
    ELSE MergeRuns(sorted_by_total(SubSeq(l, 1, Len(l) \div 2)),
                   sorted_by_total(SubSeq(l, Len(l) \div 2 + 1, Len(l))))

\* analyze_ideas.py:243-247  the first TOP_N of the sorted scores
top_ideas(scores) ==
    LET l == sorted_by_total(scores)
    IN  SubSeq(l, 1, IF Len(l) < TOP_N THEN Len(l) ELSE TOP_N)

NoReport == [total_ideas |-> 0, themes |-> <<>>, duplicates |-> <<>>,
             scores |-> <<>>, top_ideas |-> <<>>]

\* analyze_ideas.py:237-248  the report that is written to OUTPUT_FILE
build_output(all, merged) ==
    [ total_ideas |-> Len(all),
      themes |-> merged.themes,                              \* line 234, 240
      duplicates |-> merged.duplicates,
      scores |-> merged.scores,
      top_ideas |-> top_ideas(merged.scores) ]

\* analyze_ideas.py:264-270  the titles printed for the first TOP_PRINTED
\* entries of top, and the exception that ends the printing: IndexError at
\* ideas[idea_idx], KeyError at score['total_score']
RECURSIVE print_top(_, _, _)
print_top(all, top, i) ==
    IF i > Len(top) \/ i > TOP_PRINTED
    THEN [titles |-> <<>>, raised |-> "none"]
    ELSE IF top[i].idea_index >= Len(all)
    THEN [titles |-> <<>>, raised |-> "IndexError"]
    ELSE IF "total_score" \notin DOMAIN top[i]
    THEN [titles |-> <<all[top[i].idea_index + 1].title>>, raised |-> "KeyError"]
    ELSE LET rest == print_top(all, top, i + 1)
         IN  [ titles |-> <<all[top[i].idea_index + 1].title>> \o rest.titles,
               raised |-> rest.raised ]

\* The archives followed: one idea, three, a full batch, a batch and one
\* idea, two batches and some ideas more.
IdeaCounts == {1, 3, BATCH_SIZE, BATCH_SIZE + 1, MaxIdeas}

\* The total the oracle gives an idea.
Total(idea) == <<10, 30, 30, 20>>[(idea.title % 4) + 1]

\* The answers of the analysis oracle to the prompt of a batch, as
\* json.loads returns them.  "labels": every idea scored under the label
\* the prompt shows, one theme and one duplicate group of the first and the
\* last idea.  "zero_based": the same with indices counted from 0.
\* "partial": a dict with "scores" only, the last idea first and without
\* total_score, under the labels shown.
AnswerKinds == {"labels", "zero_based", "partial"}

AnalysisAnswer(kind, batch) ==
    LET n == Len(batch)
        ix(q) == IF kind = "zero_based" THEN q - 1 ELSE shown_label(q - 1)
        ends == IF n = 1 THEN <<1>> ELSE <<1, n>>
        score(q) == [idea_index |-> ix(q), total_score |-> Total(batch[q]),
                     about |-> batch[q]]
    IN  IF kind = "partial"
        THEN [ scores |-> <<[idea_index |-> ix(n), about |-> batch[n]]>>
                          \o (IF n = 1 THEN <<>> ELSE <<score(1)>>) ]
        ELSE [ themes |-> << [ name |-> "theme",
                               idea_indices |-> [i \in 1..Len(ends) |-> ix(ends[i])],
                               about |-> [i \in 1..Len(ends) |-> batch[ends[i]]] ] >>,
               duplicates |-> IF n = 1 THEN <<>>
                              ELSE << [ group |-> <<ix(1), ix(n)>>,
                                        about |-> <<batch[1], batch[n]>> ] >>,
               scores |-> [q \in 1..n |-> score(q)] ]

\* ------------------------------------------------------------------------
\* State
\* ------------------------------------------------------------------------

VARIABLES
    disk,          \* the ledger file IDEAS_HISTORY_FILE
    history,       \* self.history
    ideas_dir,     \* the titles of the files written to IDEAS_DIR
    pc,            \* "init", "running" (in the loop of run), "cooldown"
                   \* (time.sleep(300) at line 448), "stopped"
    clock,         \* the tick datetime.now() reads
    last,          \* what the last step did (observer)
    since,         \* rejections recorded since the last compression that
                   \* succeeded in this process; -1 before there was one
    outputs,       \* the texts the compressions of this process stored
    unsaved,       \* the iterations whose changes of the ledger no save of
                   \* this process has put on storage yet
    ideas,         \* analyze_ideas.py: the ideas load_all_ideas returned
    batch_results, \* analyze_ideas.py: the list batch_results of main
    merged_results,\* analyze_ideas.py: what merge_batch_results returned
    output,        \* analyze_ideas.py: the report written to OUTPUT_FILE
    printed,       \* analyze_ideas.py: the titles of the top ideas printed
    apc,           \* analyze_ideas.py: "off", "analyzing", "done", "crashed"
    answers,       \* how the oracle answered each batch (observer)
    peer           \* a second process of agent.py on the same ledger file:
                   \* its self.history, its place ("off", "init", "running",
                   \* "stopped"), whether the saves of its last iteration
                   \* succeeded, and the records its last save removed
                   \* from the file (observer)

agent_vars == <<disk, history, ideas_dir, pc, clock, last, since, outputs, unsaved>>

analysis_vars ==
    <<ideas, batch_results, merged_results, output, printed, apc, answers>>

vars == <<agent_vars, analysis_vars, peer>>

\* There is no second process.
NoPeer == [history |-> Dict(EmptyDict), pc |-> "off", saves |-> <<>>, lost |-> <<>>]

\* The analysis script is not run.
AnalysisOff ==
    /\ ideas = <<>>
    /\ batch_results = <<>>
    /\ merged_results = EmptyResult
    /\ output = NoReport
    /\ printed = <<>>
    /\ apc = "off"
    /\ answers = <<>>

\* The observer's record when no iteration has run since the start.
Idle(kind) ==
    [ kind |-> kind, ret |-> "None", saves |-> <<>>, compress |-> NoCompression,
      news |-> -1, delivery |-> "none", approval |-> NoApproval,
      raised |-> "none", recovered |-> 0 ]

Init ==
    /\ disk \in InitFiles
    /\ history = Dict(EmptyDict)
    /\ ideas_dir = <<>>
    /\ pc = "init"
    /\ clock = 0
    /\ last = Idle("none")
    /\ since = -1
    /\ outputs = <<>>
    /\ unsaved = 0
    /\ AnalysisOff
    /\ peer = NoPeer

\* StartupIdeaAgent() (agent.py:55-59), at the first start and at a start
\* after the process stopped: the ledger is read from the file.
Start ==
    /\ pc \in {"init", "stopped"}
    /\ history' = load_history(disk, isoformat(clock))
    /\ pc' = "running"
    /\ last' = Idle("started")
    /\ since' = -1
    /\ outputs' = <<>>
    /\ unsaved' = 0
    /\ UNCHANGED <<disk, ideas_dir, clock>>
    /\ UNCHANGED <<analysis_vars, peer>>

\* What a call of the summarization oracle can yield.
SummaryAnswers == {OracleError} \cup {OracleText(t) : t \in SummaryTexts}

\* Variant: an exception that leaves the iteration ends the loop.
after_iteration_exits(raised) ==
    IF raised = "none" THEN "running" ELSE "stopped"

\* agent.py:442-448  where the loop is after an iteration that raised:
\* KeyboardInterrupt breaks the loop, any other exception is followed by
\* time.sleep(300)
after_iteration(raised) ==
    IF raised = "KeyboardInterrupt" THEN "stopped"
    ELSE IF raised = "Exception" THEN "cooldown"
    ELSE "running"

\* Variant: the sink is called whatever the iteration returned.
deliver_always(ret, result, dir, io_ok) ==
    LET d == save_idea_to_file(result, dir, io_ok)
    IN  [dir |-> d.dir, path |-> d.path, attempted |-> TRUE]

\* agent.py:428-436  if idea: filepath = self.save_idea_to_file(idea)
deliver(ret, result, dir, io_ok) ==
    IF ret = "idea"
    THEN LET d == save_idea_to_file(result, dir, io_ok)
         IN  [dir |-> d.dir, path |-> d.path, attempted |-> TRUE]
    ELSE [dir |-> dir, path |-> FALSE, attempted |-> FALSE]

\* One pass of the loop body of run (agent.py:420-448): the iteration, and
\* the delivery of the idea it returned.
Iteration(ans, so1, cans, so2, io_ok) ==
    \E r \in {generate_and_evaluate_idea(history, disk, clock, ans, so1, cans, so2)} :
    \E d \in {deliver(r.ret, r.result, ideas_dir, io_ok)} :
        /\ history' = r.hist
        /\ disk' = r.file
        /\ clock' = r.clock
        /\ ideas_dir' = d.dir
        /\ pc' = after_iteration(r.raised)
        /\ last' = [ kind |-> r.kind, ret |-> r.ret, saves |-> r.saves,
                     compress |-> r.compress,
                     news |-> IF r.compress.invoked /\ since >= 0
                              THEN since + 1 ELSE -1,
                     delivery |-> IF ~d.attempted THEN "none"
                                  ELSE IF d.path THEN "ok" ELSE "failed",
                     approval |-> r.approval,
                     raised |-> r.raised,
                     recovered |-> IF r.saves # <<>> /\ r.saves[Len(r.saves)]
                                   THEN unsaved ELSE 0 ]
        /\ unsaved' = IF r.saves = <<>> THEN unsaved
                      ELSE IF r.saves[Len(r.saves)] THEN 0
                      ELSE unsaved + 1
        /\ since' = IF r.compress.done THEN 0
                    ELSE IF r.kind = "rejected" /\ since >= 0 THEN since + 1
                    ELSE since
        /\ outputs' = IF r.compress.done
                      THEN Append(outputs, r.compress.output) ELSE outputs
        /\ UNCHANGED <<analysis_vars, peer>>

\* The iteration ends at line 220: self.history is no dict.
IterCrash ==
    /\ pc = "running"
    /\ ~history.isdict
    /\ Iteration(OracleError, SaveOk, OracleError, SaveOk, TRUE)

\* The iteration yields no decision: the API call raises, or the text holds
\* no usable JSON object.
IterNoDecision ==
    /\ pc = "running"
    /\ history.isdict
    /\ \E ans \in {OracleError} \cup {OracleText(t) : t \in FailingAnswers} :
           Iteration(ans, SaveOk, OracleError, SaveOk, TRUE)

\* The iteration records a rejection, below the compression threshold.
IterReject ==
    /\ pc = "running"
    /\ history.isdict
    /\ clock < MaxClock
    /\ Len(Get(history.d, "rejected_ideas", <<>>)) + 1 < COMPRESSION_THRESHOLD
    /\ \E t \in RejectingAnswers, so1 \in SaveOutcomes :
           Iteration(OracleText(t), so1, OracleError, SaveOk, TRUE)

\* The iteration records an approval and hands the idea to the sink.
IterApprove ==
    /\ pc = "running"
    /\ history.isdict
    /\ clock < MaxClock
    /\ \E t \in ApprovingAnswers, so1 \in SaveOutcomes, io_ok \in BOOLEAN :
           Iteration(OracleText(t), so1, OracleError, SaveOk, io_ok)

\* KeyboardInterrupt outside a save: in the loop it is caught at line 442,
\* in time.sleep(300) it ends the process.
Interrupt ==
    /\ pc \in {"running", "cooldown"}
    /\ pc' = "stopped"
    /\ last' = Idle("interrupt")
    /\ UNCHANGED <<disk, history, ideas_dir, clock, since, outputs, unsaved>>
    /\ UNCHANGED <<analysis_vars, peer>>

\* time.sleep(300) returns and the loop goes on (agent.py:448).
Resume ==
    /\ pc = "cooldown"
    /\ pc' = "running"
    /\ last' = Idle("resume")
    /\ UNCHANGED <<disk, history, ideas_dir, clock, since, outputs, unsaved>>
    /\ UNCHANGED <<analysis_vars, peer>>

Next ==
    \/ Start
    \/ IterCrash
    \/ IterNoDecision
    \/ IterReject
    \/ IterApprove
    \/ Interrupt
    \/ Resume

Spec == Init /\ [][Next]_vars

\* The same with the scheduling the code gives: time.sleep(300) returns.
FairSpec == Spec /\ WF_vars(Resume)

\* ------------------------------------------------------------------------
\* The long run: the same program followed from a ledger of
\* COMPRESSION_THRESHOLD - 1 records through one compression to the next.
\* Every answer of the generation oracle is the same rejection and the saves
\* of a rejection below the threshold succeed; at the threshold the saves
\* and the summarization oracle can fail.
\* ------------------------------------------------------------------------

LongAnswer == CHOOSE t \in RejectingAnswers : Len(t) > 2

LongInit ==
    /\ disk = LongRunFile
    /\ history = Dict(EmptyDict)
    /\ ideas_dir = <<>>
    /\ pc = "init"
    /\ clock = 0
    /\ last = Idle("none")
    /\ since = -1
    /\ outputs = <<>>
    /\ unsaved = 0
    /\ AnalysisOff
    /\ peer = NoPeer

\* What a call of the summarization oracle can yield when the list will
\* hold n records: it does not fail once the list is MaxBacklog over the
\* threshold.
SummaryAnswersAt(n) ==
    IF n < COMPRESSION_THRESHOLD + MaxBacklog
    THEN SummaryAnswers
    ELSE {OracleText(t) : t \in SummaryTexts}

\* The iteration records a rejection, below the compression threshold.
LongReject ==
    /\ pc = "running"
    /\ history.isdict
    /\ clock < MaxLongClock
    /\ Len(Get(history.d, "rejected_ideas", <<>>)) + 1 < COMPRESSION_THRESHOLD
    /\ Iteration(OracleText(LongAnswer), SaveOk, OracleError, SaveOk, TRUE)

\* The iteration records a rejection that reaches the compression threshold.
LongRejectCompress ==
    /\ pc = "running"
    /\ history.isdict
    /\ clock < MaxLongClock
    /\ Len(Get(history.d, "rejected_ideas", <<>>)) + 1 >= COMPRESSION_THRESHOLD
    /\ \E so1 \in SaveOutcomes,
          cans \in SummaryAnswersAt(Len(Get(history.d, "rejected_ideas", <<>>)) + 1) :
         \E so2 \in (IF so1.kind = "interrupted" \/ ~cans.ok THEN {SaveOk}
                     ELSE SaveOutcomes) :
           Iteration(OracleText(LongAnswer), so1, cans, so2, TRUE)

\* The iteration records an approval, when the next rejection reaches the
\* threshold and no approval was recorded yet.
LongApprove ==
    /\ pc = "running"
    /\ history.isdict
    /\ clock < MaxLongClock
    /\ Len(Get(history.d, "rejected_ideas", <<>>)) + 1 >= COMPRESSION_THRESHOLD
    /\ Len(Get(history.d, "approved_ideas", <<>>)) <= MaxLongApproved
    /\ \E t \in ApprovingAnswers, so1 \in SaveOutcomes :
           Iteration(OracleText(t), so1, OracleError, SaveOk, TRUE)

\* The iteration yields no decision, when the next rejection reaches the
\* threshold.
LongNoDecision ==
    /\ pc = "running"
    /\ history.isdict
    /\ Len(Get(history.d, "rejected_ideas", <<>>)) + 1 >= COMPRESSION_THRESHOLD
    /\ \E ans \in {OracleError} \cup {OracleText(t) : t \in FailingAnswers} :
           Iteration(ans, SaveOk, OracleError, SaveOk, TRUE)

LongNext ==
    \/ Start
    \/ LongReject
    \/ LongRejectCompress
    \/ LongApprove
    \/ LongNoDecision

LongRun == LongInit /\ [][LongNext]_vars

\* ------------------------------------------------------------------------
\* The startup: the same program from every file of StartupFiles, through
\* the first rejection of a quiet environment, a stop and the next start.
\* ------------------------------------------------------------------------

StartupInit ==
    /\ disk \in StartupFiles
    /\ history = Dict(EmptyDict)
    /\ ideas_dir = <<>>
    /\ pc = "init"
    /\ clock = 0
    /\ last = Idle("none")
    /\ since = -1
    /\ outputs = <<>>
    /\ unsaved = 0
    /\ AnalysisOff
    /\ peer = NoPeer

FirstReject ==
    /\ pc = "running"
    /\ history.isdict
    /\ clock = 0
    /\ Iteration(OracleText(LongAnswer), SaveOk, OracleError, SaveOk, TRUE)

StartupNext ==
    \/ Start
    \/ FirstReject
    \/ Interrupt

Startup == StartupInit /\ [][StartupNext]_vars

\* ------------------------------------------------------------------------
\* The analysis: main of analyze_ideas.py from the loaded ideas, through
\* the oracle's answer to every batch, to the merged report and the printed
\* top ideas.
\* ------------------------------------------------------------------------

AgentOff ==
    /\ disk = NoFile
    /\ history = Dict(EmptyDict)
    /\ ideas_dir = <<>>
    /\ pc = "off"
    /\ clock = 0
    /\ last = Idle("none")
    /\ since = -1
    /\ outputs = <<>>
    /\ unsaved = 0

\* main after load_all_ideas returned a non-empty list (analyze_ideas.py:210-220)
AnalysisInit ==
    /\ AgentOff
    /\ ideas \in {Collection(n) : n \in IdeaCounts}
    /\ batch_results = <<>>
    /\ merged_results = EmptyResult
    /\ output = NoReport
    /\ printed = <<>>
    /\ apc = "analyzing"
    /\ answers = <<>>
    /\ peer = NoPeer

batches == make_batches(ideas, BATCH_SIZE)

\* analyze_ideas.py:225-227 with 132-150: the batch is analyzed and the
\* answer parsed
AnalyzeBatch ==
    /\ apc = "analyzing"
    /\ Len(batch_results) < Len(batches)
    /\ \E kind \in AnswerKinds :
          /\ batch_results' =
                Append(batch_results,
                       AnalysisAnswer(kind, batches[Len(batch_results) + 1]))
          /\ answers' = Append(answers, kind)
    /\ UNCHANGED <<ideas, merged_results, output, printed, apc>>
    /\ UNCHANGED <<agent_vars, peer>>

\* analyze_ideas.py:225-227 with 152-155: the API call or json.loads raises
AnalyzeBatchFails ==
    /\ apc = "analyzing"
    /\ Len(batch_results) < Len(batches)
    /\ batch_results' = Append(batch_results, EmptyResult)
    /\ answers' = Append(answers, "fail")
    /\ UNCHANGED <<ideas, merged_results, output, printed, apc>>
    /\ UNCHANGED <<agent_vars, peer>>

\* analyze_ideas.py:229-270: the results are merged, the report is written
\* and the top ideas are printed
Finish ==
    /\ apc = "analyzing"
    /\ Len(batch_results) = Len(batches)
    /\ \E m \in {merge_batch_results(batch_results, BATCH_SIZE)} :
       \E o \in {build_output(ideas, m.merged)} :
       \E t \in {print_top(ideas, o.top_ideas, 1)} :
          /\ batch_results' = m.batch_results
          /\ merged_results' = m.merged
          /\ output' = o
          /\ printed' = t.titles
          /\ apc' = IF t.raised = "none" THEN "done" ELSE "crashed"
    /\ UNCHANGED <<ideas, answers>>
    /\ UNCHANGED <<agent_vars, peer>>

AnalysisNext ==
    \/ AnalyzeBatch
    \/ AnalyzeBatchFails
    \/ Finish

Analysis == AnalysisInit /\ [][AnalysisNext]_vars

\* ------------------------------------------------------------------------
\* Two processes: agent.py started twice on the same IDEAS_HISTORY_FILE.
\* Each process keeps its own self.history, read from the file at its
\* start; both record rejections, read the same clock and save to the same
\* file.
\* ------------------------------------------------------------------------

\* The files the two processes find.
SharedFiles == { NoFile, DumpFile(OldLedger(2, <<"L0">>), "all") }

TwoInit ==
    /\ disk \in SharedFiles
    /\ history = Dict(EmptyDict)
    /\ ideas_dir = <<>>
    /\ pc = "init"
    /\ clock = 0
    /\ last = Idle("none")
    /\ since = -1
    /\ outputs = <<>>
    /\ unsaved = 0
    /\ AnalysisOff
    /\ peer = [NoPeer EXCEPT !.pc = "init"]

\* The rejected records of the ledger a file holds
StoredRejected(f) ==
    IF f.exists /\ f.dumped /\ f.part = "all"
    THEN Get(f.value, "rejected_ideas", <<>>) ELSE <<>>

\* The records of a that are not in b
Missing(a, b) == SelectSeq(a, LAMBDA x : \A i \in DOMAIN b : b[i] # x)

\* StartupIdeaAgent() in the second process (agent.py:55-59)
PeerStart ==
    /\ peer.pc \in {"init", "stopped"}
    /\ peer' = [ history |-> load_history(disk, isoformat(clock)),
                 pc |-> "running", saves |-> <<>>, lost |-> <<>> ]
    /\ UNCHANGED <<agent_vars, analysis_vars>>

\* An iteration of the second process that records a rejection
\* (agent.py:420-448)
PeerReject ==
    /\ peer.pc = "running"
    /\ peer.history.isdict
    /\ clock < MaxClock
    /\ \E t \in RejectingAnswers, so1 \in SaveOutcomes :
       \E r \in {generate_and_evaluate_idea(peer.history, disk, clock,
                                            OracleText(t), so1, OracleError, SaveOk)} :
          /\ peer' = [ history |-> r.hist,
                       pc |-> after_iteration(r.raised),
                       saves |-> r.saves,
                       lost |-> Missing(StoredRejected(disk), StoredRejected(r.file)) ]
          /\ disk' = r.file
          /\ clock' = r.clock
    /\ UNCHANGED <<history, ideas_dir, pc, last, since, outputs, unsaved>>
    /\ UNCHANGED analysis_vars

TwoNext ==
    \/ Start
    \/ IterReject
    \/ PeerStart
    \/ PeerReject

TwoAgents == TwoInit /\ [][TwoNext]_vars

\* ------------------------------------------------------------------------
\* Properties
\* ------------------------------------------------------------------------

Rejected(h) == Get(h.d, "rejected_ideas", <<>>)

Learnings(h) == Get(h.d, "compressed_learnings", <<>>)

Approved(h) == Get(h.d, "approved_ideas", <<>>)

IsPrefix(a, b) == Len(a) <= Len(b) /\ SubSeq(b, 1, Len(a)) = a

\* x occurs in l from position i on
OccursAt(x, l, i) ==
    i >= 1 /\ i + Len(x) - 1 <= Len(l) /\ SubSeq(l, i, i + Len(x) - 1) = x

LedgerFields == {"approved_ideas", "rejected_ideas", "compressed_learnings"}

\* a and b hold the same approved_ideas, rejected_ideas, compressed_learnings
SameLedger(a, b) ==
    \A k \in LedgerFields :
        /\ k \in DOMAIN a <=> k \in DOMAIN b
        /\ k \in DOMAIN a => a[k] = b[k]

\* h is the fresh empty ledger
IsFresh(h) ==
    /\ h.isdict
    /\ LedgerFields \subseteq DOMAIN h.d
    /\ \A k \in LedgerFields : h.d[k] = <<>>

\* load_history cannot read a ledger from f
Unusable(f) == ~f.exists \/ ~f.readable \/ ~json_load(Content(f)).ok

\* C1 (as stated): at every moment, also after a save that failed and after
\* an interrupt during a save, the ledger file on storage is a complete
\* valid ledger, never a truncated or partly written one.
C1_FileNeverPartial == disk.exists => json_load(Content(disk)).ok

\* C2 (as stated): after any application of compress_learnings to a ledger
\* whose rejected list had reached the threshold, the list has at most 50
\* entries.
C2_AnyApplicationCaps ==
    last.compress.calls = 1 => Len(Rejected(history)) <= RETAINED_REJECTED

\* C2 (amended): after an application of compress_learnings whose call of
\* the summarization oracle succeeded, the rejected list has at most 50
\* entries.
C2_SuccessfulCompressionCaps ==
    last.compress.done => Len(Rejected(history)) <= RETAINED_REJECTED

C2_Compressed ==
    /\ last.compress.done
    /\ Len(last.compress.prompt) = COMPRESSION_THRESHOLD
    /\ Len(Rejected(history)) = RETAINED_REJECTED

\* C3 (as stated): after a compression, every invocation of
\* compress_learnings made before 100 new rejections were recorded makes no
\* oracle call.
C3_NoOpBeforeThreshold ==
    (last.compress.invoked /\ last.news >= 1 /\ last.news < COMPRESSION_THRESHOLD)
        => last.compress.calls = 0

\* C3 (amended): after a compression that succeeded, every invocation of
\* compress_learnings made before 50 (the threshold less the 50 records
\* kept) new rejections were recorded makes no oracle call and changes
\* neither rejected_ideas nor compressed_learnings; the invocation at the
\* 50th new rejection calls the oracle.
C3_NoOpBeforeRefill ==
    [][ (last'.compress.invoked /\ last'.news >= 1) =>
           /\ last'.news < COMPRESSION_THRESHOLD - RETAINED_REJECTED =>
                 /\ last'.compress.calls = 0
                 /\ Learnings(history') = Learnings(history)
                 /\ Len(Rejected(history')) = Len(Rejected(history)) + 1
                 /\ IsPrefix(Rejected(history), Rejected(history'))
           /\ last'.news = COMPRESSION_THRESHOLD - RETAINED_REJECTED =>
                 last'.compress.calls = 1 ]_vars

C3_LastNoOp ==
    /\ last.compress.invoked
    /\ last.news = COMPRESSION_THRESHOLD - RETAINED_REJECTED - 1
    /\ last.compress.calls = 0

\* C4: compressed_learnings only grows: over every iteration its value
\* before is a prefix of its value after, and after two successive
\* compressions it holds the text stored by the first entirely before the
\* text stored by the second.
C4_LearningsOnlyGrow ==
    [][ /\ pc = "running" => IsPrefix(Learnings(history), Learnings(history'))
        /\ (Len(outputs') >= 2 /\ last'.compress.done) =>
              \E i, j \in 1..Len(Learnings(history')) :
                  /\ OccursAt(outputs'[Len(outputs') - 1], Learnings(history'), i)
                  /\ OccursAt(outputs'[Len(outputs')], Learnings(history'), j)
                  /\ i + Len(outputs'[Len(outputs') - 1]) <= j ]_vars

C4_TwoCompressions ==
    /\ Len(outputs) = 2
    /\ last.compress.done
    /\ Len(Learnings(history)) > Len(outputs[1]) + Len(outputs[2])

\* C5 (as stated): on every successful compression the stored text stands
\* in compressed_learnings under a dated separator line
\* '--- Compression from <date> ---'.
C5_EveryOutputUnderSeparator ==
    last.compress.done =>
        \E i \in 1..Len(Learnings(history)) :
            OccursAt(separator(clock) \o last.compress.output, Learnings(history), i)

\* C5 (amended): a successful compression appends the dated separator and
\* the oracle's stripped text when compressed_learnings was not empty; when
\* it was empty, compressed_learnings becomes the stripped text alone, with
\* no separator in front.
C5_SeparatorWhenNotEmpty ==
    [][ last'.compress.done =>
           Learnings(history') =
               IF Learnings(history) = <<>>
               THEN last'.compress.output
               ELSE Learnings(history) \o separator(clock') \o last'.compress.output ]_vars

C5_DatedSeparatorWritten ==
    /\ last.compress.done
    /\ strftime_date(clock) # strftime_date(0)
    /\ \E i \in 1..Len(Learnings(history)) :
           OccursAt(separator(clock) \o last.compress.output, Learnings(history), i)

C7_OracleFailureLeavesLedger ==
    [][ (last'.compress.calls = 1 /\ ~last'.compress.done) =>
           /\ Learnings(history') = Learnings(history)
           /\ Len(Rejected(history')) = Len(Rejected(history)) + 1
           /\ IsPrefix(Rejected(history), Rejected(history'))
           /\ history'.isdict
           /\ pc' = "running" ]_vars

C7_OracleFailed ==
    /\ last.compress.calls = 1
    /\ ~last.compress.done
    /\ pc = "running"
    /\ Len(Rejected(history)) >= COMPRESSION_THRESHOLD

\* C8: load_history never raises: for a missing file and for a file that
\* cannot be opened or parsed it returns the fresh empty ledger.
C8_LoadNeverRaises ==
    (last.kind = "started" /\ Unusable(disk)) => (IsFresh(history) /\ pc = "running")

C8_TruncatedFileLoaded ==
    /\ last.kind = "started"
    /\ disk.exists /\ disk.readable
    /\ Len(Content(disk)) > 1
    /\ ~json_load(Content(disk)).ok
    /\ IsFresh(history)

\* C9: loading a legacy file {explored_ideas: [...], last_updated} yields a
\* ledger whose approved_ideas is the explored_ideas list in the same order,
\* with rejected_ideas = [] and compressed_learnings = '', and leaves the
\* file as it was.
C9_LegacyUpcast ==
    [][ \A l \in LegacyLists, dated \in BOOLEAN :
           (pc \in {"init", "stopped"} /\ disk = LegacyFile(l, dated)) =>
               /\ disk' = disk
               /\ history'.isdict
               /\ LedgerFields \subseteq DOMAIN history'.d
               /\ history'.d["approved_ideas"] = l
               /\ history'.d["rejected_ideas"] = <<>>
               /\ history'.d["compressed_learnings"] = <<>> ]_vars

C9_LegacyLoaded ==
    /\ last.kind = "started"
    /\ disk = LegacyFile(<< <<"a">>, <<"b">> >>, FALSE)
    /\ Approved(history) = << <<"a">>, <<"b">> >>

\* C10: a successful save_history followed by load_history returns a ledger
\* equal to the saved one in approved_ideas, rejected_ideas and
\* compressed_learnings.
C10_SaveLoadRoundTrip ==
    (disk.exists /\ disk.readable /\ disk.dumped /\ disk.part = "all") =>
        LET loaded == load_history(disk, isoformat(clock)) IN
        loaded.isdict /\ SameLedger(loaded.d, disk.value)

C10_Reloaded ==
    /\ last.kind = "started"
    /\ clock > 0
    /\ disk.exists /\ disk.readable /\ disk.dumped /\ disk.part = "all"
    /\ Len(Rejected(history)) >= 1
    /\ Len(Approved(history)) >= 3
    /\ SameLedger(history.d, disk.value)

\* C11: when the response text holds no '{'/'}' pair, or the text from the
\* first '{' to the last '}' is not valid JSON, the iteration returns None,
\* leaves the ledger in memory and the ledger file as they were, saves
\* nothing and does not call compress_learnings.
C11_MalformedLeavesLedger ==
    [][ last'.kind \in {"no_json", "bad_json"} =>
           /\ history' = history
           /\ disk' = disk
           /\ last'.ret = "None"
           /\ last'.saves = <<>>
           /\ ~last'.compress.invoked
           /\ pc' = "running" ]_vars

C11_MalformedAnswerSeen ==
    /\ last.kind = "bad_json"
    /\ Len(Rejected(history)) >= 1
    /\ disk.exists /\ disk.dumped

\* The ways an iteration fails: the ledger is no dict (AttributeError at
\* line 220), the API call raises, the response is malformed, or another
\* exception is raised inside the try block.
FailureKinds == {"crash", "api_error", "no_json", "bad_json", "no_title", "bad_keywords"}

\* C12: no transport error, malformed response or unexpected exception of
\* an iteration ends the loop: the iteration yields no idea and no file, the
\* loop is then at its next iteration or in the cool-down, and from the
\* cool-down the loop comes back to its next iteration unless an interrupt
\* stops it.
C12_FailuresNeverEndLoop ==
    /\ [][ /\ last'.kind \in FailureKinds =>
                 /\ pc' \in {"running", "cooldown"}
                 /\ last'.ret = "None"
                 /\ ideas_dir' = ideas_dir
           /\ last'.delivery = "failed" => pc' = "running" ]_vars
    /\ (pc = "cooldown" ~> pc \in {"running", "stopped"})

C12_ResumedAfterCrash ==
    /\ last.kind = "resume"
    /\ pc = "running"
    /\ ~history.isdict

ResultFields == {"themes", "duplicates", "scores"}

\* The number of entries of field k in the results before the b-th
RECURSIVE CountBefore(_, _, _)
CountBefore(results, k, b) ==
    IF b <= 1 THEN 0
    ELSE CountBefore(results, k, b - 1) + Len(Get(results[b - 1], k, <<>>))

\* The indices an entry of field k holds, and the entry without them
IndicesOf(k, e) ==
    IF k = "themes" THEN e.idea_indices
    ELSE IF k = "duplicates" THEN e.group
    ELSE <<e.idea_index>>

Stripped(k, e) ==
    IF k = "themes" THEN [e EXCEPT !.idea_indices = <<>>]
    ELSE IF k = "duplicates" THEN [e EXCEPT !.group = <<>>]
    ELSE [e EXCEPT !.idea_index = 0]

\* The step of main that merges
Merging == apc = "analyzing" /\ apc' # "analyzing"

\* C13: the merged themes, duplicates and scores hold, in batch order and
\* in the order within each batch, one entry for every entry of the batch
\* results and no other, and the entry of the k-th batch (0-based) holds
\* the same indices, each increased by k * BATCH_SIZE, and is otherwise the
\* same.
C13_MergeIsRebasing ==
    [][ Merging =>
          \A k \in ResultFields :
             /\ Len(merged_results'[k]) =
                   CountBefore(batch_results, k, Len(batch_results) + 1)
             /\ \A b \in 1..Len(batch_results) :
                \A j \in 1..Len(Get(batch_results[b], k, <<>>)) :
                   LET in == batch_results[b][k][j]
                       out == merged_results'[k][CountBefore(batch_results, k, b) + j]
                   IN  /\ Stripped(k, out) = Stripped(k, in)
                       /\ Len(IndicesOf(k, out)) = Len(IndicesOf(k, in))
                       /\ \A i \in 1..Len(IndicesOf(k, in)) :
                             IndicesOf(k, out)[i] =
                                IndicesOf(k, in)[i] + (b - 1) * BATCH_SIZE ]_vars

\* Index 3 of the third batch has become 43.
C13_Index3OfBatch2Is43 ==
    /\ apc \in {"done", "crashed"}
    /\ Len(answers) = 3
    /\ answers[3] = "labels"
    /\ \E i \in 1..Len(merged_results.scores) :
          /\ merged_results.scores[i].idea_index = 2 * BATCH_SIZE + 3
          /\ merged_results.scores[i].about.title = 2 * BATCH_SIZE + 2
    /\ \E i \in 1..Len(merged_results.themes) :
          merged_results.themes[i].idea_indices[1] = 2 * BATCH_SIZE + 1

\* The analysis has merged and written its report.
Merged == apc \in {"done", "crashed"}

\* The batch (1-based) an idea was presented in
BatchOf(idea) == (idea.title \div BATCH_SIZE) + 1

\* C14: every idea_index of the merged scores that the oracle gave under the
\* label the prompt showed is the 0-based position, in the archive, of the
\* idea the oracle scored: it equals k * BATCH_SIZE + p for the idea at
\* position p of batch k and lies within the archive.
C14_IndexResolvesToScoredIdea ==
    Merged =>
       \A i \in 1..Len(merged_results.scores) :
          LET s == merged_results.scores[i]
          IN  answers[BatchOf(s.about)] \in {"labels", "partial"} =>
                 /\ s.idea_index = s.about.title
                 /\ s.idea_index < Len(ideas)
                 /\ ideas[s.idea_index + 1] = s.about

\* The place of the j-th entry of l in the descending stable order
Rank(l, j) ==
    Cardinality({ i \in 1..Len(l) :
                    \/ sort_key(l[i]) > sort_key(l[j])
                    \/ sort_key(l[i]) = sort_key(l[j]) /\ i < j }) + 1

\* C15: top_ideas holds the first TOP_N of the merged scores in descending
\* order of total_score (0 when missing), entries of equal total_score in
\* the order they have in the merged scores.
C15_TopIsStablePrefix ==
    Merged =>
       LET l == merged_results.scores
       IN  /\ Len(output.top_ideas) = (IF Len(l) < TOP_N THEN Len(l) ELSE TOP_N)
           /\ \A j \in 1..Len(l) :
                 Rank(l, j) <= TOP_N => output.top_ideas[Rank(l, j)] = l[j]

\* More scores than TOP_N, the cut falling between scores of equal total.
C15_TieAtTheCut ==
    /\ Merged
    /\ Len(merged_results.scores) > TOP_N
    /\ \E j \in 1..Len(merged_results.scores) :
          /\ Rank(merged_results.scores, j) > TOP_N
          /\ sort_key(merged_results.scores[j]) = sort_key(output.top_ideas[TOP_N])
    /\ sort_key(output.top_ideas[1]) = sort_key(output.top_ideas[2])
    /\ output.top_ideas[1].idea_index < output.top_ideas[2].idea_index

\* The step of main in which a batch fails
BatchFails == Len(answers') > Len(answers) /\ answers'[Len(answers')] = "fail"

\* C16: a batch whose API call or parse fails contributes the result
\* {themes: [], duplicates: [], scores: []} and the loop goes on to the next
\* batch; with failed batches the results are still merged and the report
\* written, a failed batch contributes no entry, every score of another batch
\* is there with the index the oracle gave increased by k * BATCH_SIZE for
\* the batch's own position k, and the failures alone never end the run
\* with an exception.
C16_FailedBatchIsEmpty ==
    [][ /\ BatchFails =>
             /\ batch_results' =
                   Append(batch_results,
                          [themes |-> <<>>, duplicates |-> <<>>, scores |-> <<>>])
             /\ apc' = "analyzing"
        /\ (Merging /\ \E b \in 1..Len(answers) : answers[b] = "fail") =>
             /\ apc' \in {"done", "crashed"}
             /\ output'.scores = merged_results'.scores
             /\ output'.themes = merged_results'.themes
             /\ \A k \in ResultFields :
                   Len(merged_results'[k]) =
                      CountBefore([b \in 1..Len(answers) |->
                                      IF answers[b] = "fail" THEN EmptyDict
                                      ELSE batch_results[b]],
                                  k, Len(answers) + 1)
             /\ \A i \in 1..Len(merged_results'.scores) :
                   LET s == merged_results'.scores[i]
                       b == BatchOf(s.about)
                       given == (s.about.title % BATCH_SIZE)
                                   + (IF answers[b] = "zero_based" THEN 0 ELSE 1)
                   IN  /\ answers[b] # "fail"
                       /\ s.idea_index = given + (b - 1) * BATCH_SIZE
             /\ (\A b \in 1..Len(answers) : answers[b] \in {"fail", "zero_based"})
                   => apc' = "done" ]_vars

\* The first of three batches failed and the third was scored.
C16_MergedAfterFailure ==
    /\ Merged
    /\ Len(answers) = 3
    /\ answers[1] = "fail"
    /\ answers[3] = "zero_based"
    /\ \E i \in 1..Len(merged_results.scores) :
          merged_results.scores[i].idea_index = 2 * BATCH_SIZE + 3

\* C17: merge_batch_results leaves batch_results as it was, and a second
\* call with the same batch_results returns the same merged report.
C17_MergeLeavesInput ==
    [][ Merging =>
          /\ batch_results' = batch_results
          /\ merge_batch_results(batch_results', BATCH_SIZE).merged
                = merged_results' ]_vars

\* C18: within a run approved_ideas only grows at its end: over every
\* iteration (an approval, a rejection with or without compression, an
\* iteration without decision) the list before is a prefix of the list
\* after; and an approval whose keywords are a list appends the keywords in
\* their order and then the title, nothing else.
C18_ApprovedAppendOnly ==
    [][ /\ (pc = "running" /\ history.isdict /\ history'.isdict) =>
              IsPrefix(Approved(history), Approved(history'))
        /\ (last'.kind = "approved" /\ last'.approval.type = "list") =>
              Approved(history') =
                 Approved(history) \o last'.approval.keywords
                                   \o <<last'.approval.title>> ]_vars

\* An approval with two keywords, after a compression of this run.
C18_ApprovedAfterCompression ==
    /\ last.kind = "approved"
    /\ last.approval.type = "list"
    /\ Len(last.approval.keywords) = 2
    /\ Len(outputs) >= 1
    /\ Len(Approved(history)) = 4

\* The last save of the step succeeded / a save of the step failed with an
\* exception that save_history caught
LastSaveOk(l) == l.saves # <<>> /\ l.saves[Len(l.saves)]

SaveFailed(l) ==
    /\ \E i \in 1..Len(l.saves) : ~l.saves[i]
    /\ l.raised # "KeyboardInterrupt"

\* C19: after an iteration whose last save succeeded the ledger file holds
\* a ledger equal to the one in memory in approved_ideas, rejected_ideas and
\* compressed_learnings, whatever saves had failed before; after an
\* iteration with a failed save the loop is at its next iteration and the
\* ledger in memory holds the record or the entries the iteration added.
C19_SavedEqualsMemory ==
    /\ [](LastSaveOk(last) =>
              /\ disk.exists
              /\ json_load(Content(disk)).ok
              /\ SameLedger(json_load(Content(disk)).v, history.d))
    /\ [][ SaveFailed(last') =>
              /\ pc' = "running"
              /\ last'.kind = "rejected" =>
                    /\ Len(Rejected(history')) = Len(Rejected(history)) + 1
                    /\ IsPrefix(Rejected(history), Rejected(history'))
                    /\ Rejected(history')[Len(Rejected(history'))].timestamp
                          = isoformat(clock')
              /\ last'.kind = "approved" =>
                    /\ Len(Approved(history')) > Len(Approved(history))
                    /\ IsPrefix(Approved(history), Approved(history'))
                    /\ Approved(history')[Len(Approved(history'))]
                          = last'.approval.title ]_vars

\* A save has put on storage a ledger with a record whose own save failed.
C19_RecoveredByNextSave ==
    /\ last.recovered >= 1
    /\ last.kind = "approved"
    /\ Len(Rejected(history)) >= 1
    /\ disk.exists
    /\ SameLedger(json_load(Content(disk)).v, history.d)

\* The record a rejecting iteration added: the newest of the list
Newest(h) == Rejected(h)[Len(Rejected(h))]

\* C20: a rejecting iteration appends exactly one record {title, reason,
\* timestamp} with the current time, saves, then evaluates
\* compress_learnings and returns None: the file written by the first save
\* holds the list with the new record and before any truncation, the
\* compression is evaluated unless an interrupt ended the first save, and
\* when the oracle is asked for a summary the last line of the window is
\* the line of the new record.
C20_RejectionOrder ==
    [][ last'.kind = "rejected" =>
          /\ Len(Rejected(history')) >= 1
          /\ DOMAIN Newest(history') = {"title", "reason", "timestamp"}
          /\ Newest(history').timestamp = isoformat(clock')
          /\ last'.ret = "None"
          /\ Len(last'.saves) >= 1
          /\ ~last'.compress.done =>
                Rejected(history') = Append(Rejected(history), Newest(history'))
          /\ last'.compress.done =>
                /\ Len(Rejected(history)) + 1 >= COMPRESSION_THRESHOLD
                /\ Rejected(history') =
                      LastN(Append(Rejected(history), Newest(history')),
                            RETAINED_REJECTED)
          /\ ( /\ last'.saves[1]
               /\ \/ Len(last'.saves) = 1
                  \/ ~last'.saves[2] /\ disk'.part = "all" ) =>
                /\ disk'.dumped /\ disk'.part = "all"
                /\ disk'.value["rejected_ideas"] =
                      Append(Rejected(history), Newest(history'))
          /\ \/ last'.compress.invoked
             \/ last'.raised = "KeyboardInterrupt" /\ last'.saves = <<FALSE>>
          /\ last'.compress.calls = 1 =>
                /\ Len(last'.compress.prompt) =
                      (IF Len(Rejected(history)) + 1 < COMPRESSION_THRESHOLD
                       THEN Len(Rejected(history)) + 1 ELSE COMPRESSION_THRESHOLD)
                /\ last'.compress.prompt[Len(last'.compress.prompt)] =
                      <<"- ">> \o Newest(history').title \o <<": ">>
                               \o Newest(history').reason ]_vars

\* The rejection that brought the list to the threshold was the last line
\* of the window, after 99 records of an earlier run.
C20_ThresholdRejectionInWindow ==
    /\ last.kind = "rejected"
    /\ last.compress.done
    /\ last.saves = <<TRUE, TRUE>>
    /\ Len(last.compress.prompt) = COMPRESSION_THRESHOLD
    /\ last.compress.prompt[COMPRESSION_THRESHOLD]
          # last.compress.prompt[COMPRESSION_THRESHOLD - 1]
    /\ last.compress.prompt[COMPRESSION_THRESHOLD] =
          <<"- ">> \o Newest(history).title \o <<": ">> \o Newest(history).reason

\* The keys of the ledger other than those an approval writes
OtherKeys(h) == DOMAIN h.d \ {"approved_ideas", "last_updated"}

\* C21: the sink is called only in an iteration that has recorded an
\* approval in the ledger and returned the idea, and in every such
\* iteration; whether the delivery succeeds or fails, the ledger in memory
\* is the one the approval left (the approved entries ending with the title,
\* every other list as before), the ledger file is as the approval's save
\* left it (the dump of that ledger, or a part of it, or the file as it
\* was), and only a delivery that succeeded adds a file.
C21_DeliveryAfterApproval ==
    /\ [](last.delivery # "none" =>
              /\ last.kind = "approved"
              /\ last.ret = "idea"
              /\ Len(Approved(history)) >= 1
              /\ Approved(history)[Len(Approved(history))] = last.approval.title
              /\ LastSaveOk(last) =>
                    /\ disk.dumped /\ disk.part = "all"
                    /\ disk.value = history.d)
    /\ [][ /\ last'.ret = "idea" <=> last'.delivery # "none"
           /\ last'.delivery # "none" =>
                 /\ history.isdict /\ history'.isdict
                 /\ IsPrefix(Approved(history), Approved(history'))
                 /\ Len(Approved(history')) > Len(Approved(history))
                 /\ OtherKeys(history') = OtherKeys(history)
                 /\ \A k \in OtherKeys(history) : history'.d[k] = history.d[k]
                 /\ ~LastSaveOk(last') =>
                       \/ disk' = disk
                       \/ disk'.dumped /\ disk'.value = history'.d
           /\ last'.delivery = "ok" =>
                 ideas_dir' = Append(ideas_dir, last'.approval.title)
           /\ last'.delivery \in {"none", "failed"} => ideas_dir' = ideas_dir ]_vars

\* A delivery failed after an approval that is in the ledger and in the file.
C21_FailedDeliveryKeepsApproval ==
    /\ last.delivery = "failed"
    /\ last.saves = <<TRUE>>
    /\ Len(last.approval.keywords) = 2
    /\ Len(Approved(history)) >= 3
    /\ ideas_dir = <<>>
    /\ disk.dumped /\ disk.value = history.d

\* C22: with two processes on one ledger file, a save that succeeds leaves
\* in the file exactly the ledger the saving process has in memory, whatever
\* the file held; the records that a save of the second process removes
\* from the file are records the file held and the second process never
\* had in memory.
C22_SaveWritesOwnLedger ==
    [][ /\ (history' # history /\ LastSaveOk(last')) =>
              /\ disk'.dumped /\ disk'.part = "all"
              /\ disk'.value = history'.d
        /\ (peer'.history # peer.history /\ LastSaveOk(peer')) =>
              /\ disk'.dumped /\ disk'.part = "all"
              /\ disk'.value = peer'.history.d
              /\ \A i \in DOMAIN peer'.lost :
                    /\ \E j \in DOMAIN StoredRejected(disk) :
                          StoredRejected(disk)[j] = peer'.lost[i]
                    /\ \A j \in DOMAIN Rejected(peer.history) :
                          Rejected(peer.history)[j] # peer'.lost[i] ]_vars

\* The lost update: the first process appended a record and saved it, the
\* second process saved next, and the record is not in the file.
C22_LostUpdate ==
    /\ last.kind = "rejected"
    /\ last.saves = <<TRUE>>
    /\ peer.saves = <<TRUE>>
    /\ peer.lost = <<Newest(history)>>
    /\ disk.dumped /\ disk.part = "all"
    /\ disk.value = peer.history.d
    /\ \A j \in DOMAIN StoredRejected(disk) : StoredRejected(disk)[j] # Newest(history)
    /\ Len(StoredRejected(disk)) = 3

\* The three lists are as they were.
LedgerUntouched ==
    /\ Approved(history') = Approved(history)
    /\ Rejected(history') = Rejected(history)
    /\ Learnings(history') = Learnings(history)

\* One record was appended to rejected_ideas, and the compression, when it
\* was carried out, has worked on the list with that record.
OneRejectionAdded ==
    /\ Approved(history') = Approved(history)
    /\ Len(Rejected(history')) >= 1
    /\ IF last'.compress.done
       THEN Rejected(history') =
               LastN(Append(Rejected(history), Newest(history')), RETAINED_REJECTED)
       ELSE /\ Rejected(history') = Append(Rejected(history), Newest(history'))
            /\ Learnings(history') = Learnings(history)

\* The keywords and the title were appended to approved_ideas.
OneApprovalAdded ==
    /\ Rejected(history') = Rejected(history)
    /\ Learnings(history') = Learnings(history)
    /\ IsPrefix(Approved(history), Approved(history'))
    /\ Len(Approved(history')) =
          Len(Approved(history)) + Len(last'.approval.keywords) + 1
    /\ Approved(history')[Len(Approved(history'))] = last'.approval.title
    /\ last'.approval.type = "list" =>
          Approved(history') =
             Approved(history) \o last'.approval.keywords \o <<last'.approval.title>>

\* C23: an iteration that returns changes the ledger in memory in exactly
\* one of three ways: it returns None after a failure (API error, no or
\* undecodable JSON, an approval without title or with keywords that cannot
\* be added) and the three lists are as they were; it returns None after a
\* rejection and one record was appended to rejected_ideas, approved_ideas
\* as it was; it returns the idea and its keywords and title were appended
\* to approved_ideas, the other two lists as they were.  An iteration that
\* an interrupt ends during its save has made the whole change of a
\* rejection or of an approval.
C23_OneOfThreeWays ==
    [][ (pc = "running" /\ history.isdict) =>
          /\ history'.isdict
          /\ last'.kind \in FailureKinds \cup {"rejected", "approved"}
          /\ last'.kind \in FailureKinds =>
                /\ last'.ret = "None"
                /\ LedgerUntouched
          /\ last'.kind = "rejected" =>
                /\ last'.ret = "None"
                /\ OneRejectionAdded
          /\ last'.kind = "approved" =>
                /\ OneApprovalAdded
                /\ last'.ret = "idea" <=> last'.raised # "KeyboardInterrupt"
          /\ last'.ret = "idea" => last'.kind = "approved" ]_vars

\* An approval-shaped answer without title, on a ledger that holds approved
\* entries, after a compression.
C23_NoTitleLeavesLedger ==
    /\ last.kind = "no_title"
    /\ Len(Approved(history)) = 4
    /\ Len(outputs) >= 1
    /\ Len(Rejected(history)) >= COMPRESSION_THRESHOLD - 1

\* The rejected list an iteration's compression has worked on: the list
\* before the iteration with the new record.
BeforeTruncation == Append(Rejected(history), Newest(history'))

\* The positions of BeforeTruncation whose records the truncation removed.
Discarded == 1..(Len(BeforeTruncation) - Len(Rejected(history')))

\* The record at position i of BeforeTruncation has its line among the
\* lines the summarization oracle was given.
Summarized(i) ==
    LET skipped == Len(BeforeTruncation) - Len(last'.compress.prompt) IN
    /\ i > skipped
    /\ last'.compress.prompt[i - skipped] = summary_lines(<<BeforeTruncation[i]>>)[1]

\* C24: no rejected record is discarded by the truncation without having
\* been in the window of a successful compression.  On a ledger that no
\* compression has worked on yet (no learnings stored, none produced in this
\* run) the only such window is the one of the compression that discards:
\* every record it removes from rejected_ideas is among the records whose
\* lines it gave to the oracle.
C24_DiscardedWereSummarized ==
    [][ ( /\ pc = "running"
          /\ history.isdict
          /\ Learnings(history) = <<>>
          /\ outputs = <<>>
          /\ last'.compress.done )
        => \A i \in Discarded : Summarized(i) ]_vars

====
